---- MODULE Spec2Model ----
(***************************************************************************)
(* Model of volume-calculator.c: the signed tetrahedron volume             *)
(* (tetrahedron_volume), the polyhedron volume accumulator                 *)
(* (calculate_volume) as a small-step machine, and the two shape wrappers  *)
(* (calculate_volume_qfhexahedron, calculate_volume_prism).                *)
(*                                                                         *)
(* Coordinates are small integers.  Every difference and product of lines  *)
(* 27-39 is then an integer far below 2^53, so the binary64 numerator is   *)
(* exact and is computed here with integer arithmetic.  The division by    *)
(* 6.0 and the += of line 72 round; they are modelled as IEEE-754 binary64 *)
(* round-to-nearest-even operations on exact fixed-point numbers (double   *)
(* evaluated as double, FLT_EVAL_METHOD 0, as on x86-64 and AArch64).      *)
(***************************************************************************)
EXTENDS Integers, Sequences, FiniteSets, TLC

----------------------------------------------------------------------------
(* binary64 values.  A value is <<sgn, <<l2, l1, l0>>>>: sgn in {-1,0,1}    *)
(* and a magnitude l2*B^2 + l1*B + l0 counted in units of 2^-FracBits.     *)
(* The smallest nonzero quotient |n|/6.0 lies in [2^-3, 2^-2), where one   *)
(* unit in the last place is 2^(-3-52) = 2^-55; sums and differences of    *)
(* multiples of 2^-55 are multiples of 2^-55, and a multiple of 2^-55      *)
(* below 2^-2 has at most 53 significant bits, so every value the program  *)
(* computes from integer coordinates is represented exactly.  -0.0 and     *)
(* +0.0 compare equal in C and are one value here.                         *)

\* significand width of the C type double (DBL_MANT_DIG)
MantissaBits == 53

FracBits == MantissaBits + 2

LimbBits == 24

LimbBase == 2^LimbBits

DZero == <<0, <<0, 0, 0>>>>

Abs(n) == IF n < 0 THEN -n ELSE n

Sign(n) == IF n < 0 THEN -1 ELSE IF n = 0 THEN 0 ELSE 1

RECURSIVE BitLen(_)
BitLen(n) == IF n = 0 THEN 0 ELSE 1 + BitLen(n \div 2)

\* carry propagation: limbs that may exceed LimbBase -> canonical limbs
MagNorm(a2, a1, a0) ==
    LET t1 == a1 + (a0 \div LimbBase)
    IN  <<a2 + (t1 \div LimbBase), t1 % LimbBase, a0 % LimbBase>>

MagAdd(x, y) == MagNorm(x[1] + y[1], x[2] + y[2], x[3] + y[3])

MagLess(x, y) ==
    \/ x[1] < y[1]
    \/ x[1] = y[1] /\ x[2] < y[2]
    \/ x[1] = y[1] /\ x[2] = y[2] /\ x[3] < y[3]

\* x - y for x >= y, with borrows
MagSub(x, y) ==
    LET t0 == x[3] - y[3] + LimbBase
        b0 == 1 - (t0 \div LimbBase)
        t1 == x[2] - y[2] - b0 + LimbBase
        b1 == 1 - (t1 \div LimbBase)
    IN  <<x[1] - y[1] - b1, t1 % LimbBase, t0 % LimbBase>>

MagBits(x) ==
    IF x[1] > 0 THEN 2 * LimbBits + BitLen(x[1])
    ELSE IF x[2] > 0 THEN LimbBits + BitLen(x[2])
    ELSE BitLen(x[3])

\* Round the exact magnitude x + rem/3 units (rem in 0..2) to MantissaBits
\* significant bits, to nearest, ties to even (the default rounding mode).
RoundMag(x, rem) ==
    LET s == MagBits(x) - MantissaBits
    IN  IF s < 0 \/ (s = 0 /\ rem = 0) THEN x
        ELSE LET p    == 2^s
                 low  == x[3] % p
                 twice == 2 * (3 * low + rem)
                 up   == \/ twice > 3 * p
                         \/ twice = 3 * p /\ (x[3] \div p) % 2 = 1
             IN  MagNorm(x[1], x[2], x[3] - low + (IF up THEN p ELSE 0))

\* (double) n, exact for the integers of the model
DFromInt(n) == <<Sign(n), <<Abs(n) * 2^(FracBits - 2 * LimbBits), 0, 0>>>>

\* n / 2.0, exact
DHalf(n) == <<Sign(n), <<Abs(n) * 2^(FracBits - 1 - 2 * LimbBits), 0, 0>>>>

\* n / 6.0 in binary64: long division of |n| * 2^FracBits by 6, then rounding
DDiv6(n) ==
    IF n = 0 THEN DZero
    ELSE LET top == Abs(n) * 2^(FracBits - 1 - 2 * LimbBits)
             q2  == top \div 3
             n1  == (top % 3) * LimbBase
             q1  == n1 \div 3
             n0  == (n1 % 3) * LimbBase
             q0  == n0 \div 3
         IN  <<Sign(n), RoundMag(<<q2, q1, q0>>, n0 % 3)>>

DNeg(x) == <<-x[1], x[2]>>

\* x + y in binary64
DAdd(x, y) ==
    IF x[1] = 0 THEN y
    ELSE IF y[1] = 0 THEN x
    ELSE IF x[1] = y[1] THEN <<x[1], RoundMag(MagAdd(x[2], y[2]), 0)>>
    ELSE IF x[2] = y[2] THEN DZero
    ELSE IF MagLess(x[2], y[2]) THEN <<y[1], RoundMag(MagSub(y[2], x[2]), 0)>>
    ELSE <<x[1], RoundMag(MagSub(x[2], y[2]), 0)>>

\* |x - y| as an exact magnitude (no rounding)
DDist(x, y) ==
    IF x[1] = 0 THEN y[2]
    ELSE IF y[1] = 0 THEN x[2]
    ELSE IF x[1] # y[1] THEN MagAdd(x[2], y[2])
    ELSE IF MagLess(x[2], y[2]) THEN MagSub(y[2], x[2])
    ELSE MagSub(x[2], y[2])

\* EPSILON, line 9: the largest magnitude, in units of 2^-FracBits, that is
\* below the binary64 value of 0.0001 (0.0001 * 2^55 = 3602879701896.397...)
EPSILON == <<0, 214748, 6120328>>

\* |x - y| < EPSILON
Within(x, y) == ~MagLess(EPSILON, DDist(x, y))

----------------------------------------------------------------------------
(* Bounds of the checked inputs *)

\* coordinates of the reference vertex and of free points range over 0..MaxCoord
MaxCoord == 1

\* longest vertex array passed to a direct call under Spec
MaxVertices == 4

\* longest face list passed to a direct call under Spec
MaxFaces == 2

\* edge lengths of the boxes and prisms handed to the wrappers: 1..MaxEdge
MaxEdge == 4

\* horizontal shifts of a box's top face: -MaxShear..MaxShear
MaxShear == 1

\* components of the translation vectors: -MaxShift..MaxShift
MaxShift == 1

Coord == 0..MaxCoord

Points == {<<x, y, z>> : x \in Coord, y \in Coord, z \in Coord}

----------------------------------------------------------------------------
(* The program's state *)

VARIABLES
    caller,          \* who calls: "direct", "qfhexahedron", "prism", "tetra"
    pc,              \* position in the running function
    num_vertices,    \* calculate_volume's arguments
    vectors,
    num_trfaces,
    vector_indices,
    tetrahedron,     \* scratch: vector3d tetrahedron[4]; <<>> before the first memset
    volume,          \* the running total (binary64)
    i, j,            \* loop counters
    vol,             \* the value tetrahedron_volume returned last (binary64)
    idx_reads,       \* positions of vector_indices read by this activation
    vec_reads,       \* indices of vectors read by this activation
    slot_writes,     \* slots of tetrahedron written by this activation
    ncalls,          \* calls of tetrahedron_volume made by this activation
    saved,           \* the caller's copy of the previous call's result
    op               \* what the caller did before the current call

vars == <<caller, pc, num_vertices, vectors, num_trfaces, vector_indices,
          tetrahedron, volume, i, j, vol, idx_reads, vec_reads, slot_writes,
          ncalls, saved, op>>

args == <<num_vertices, vectors, num_trfaces, vector_indices>>

\* C arrays are indexed from 0
At(arr, k) == arr[k + 1]

X == 0

Y == 1

Z == 2

ZeroVector == <<0, 0, 0>>

----------------------------------------------------------------------------
(* tetrahedron_volume, lines 22-42 *)

\* a slip: the points are not translated, p3 is never subtracted
TripleProductUntranslated(t) ==
    LET ax == At(At(t, 0), X)
        ay == At(At(t, 0), Y)
        az == At(At(t, 0), Z)
        bx == At(At(t, 1), X)
        by == At(At(t, 1), Y)
        bz == At(At(t, 1), Z)
        cx == At(At(t, 2), X)
        cy == At(At(t, 2), Y)
        cz == At(At(t, 2), Z)
    IN  ax * (by * cz - bz * cy)
        + ay * (bz * cx - bx * cz)
        + az * (bx * cy - by * cx)

\* a slip: a plus for the minus of line 39
TripleProductSignSlip(t) ==
    LET ax == At(At(t, 0), X) - At(At(t, 3), X)
        ay == At(At(t, 0), Y) - At(At(t, 3), Y)
        az == At(At(t, 0), Z) - At(At(t, 3), Z)
        bx == At(At(t, 1), X) - At(At(t, 3), X)
        by == At(At(t, 1), Y) - At(At(t, 3), Y)
        bz == At(At(t, 1), Z) - At(At(t, 3), Z)
        cx == At(At(t, 2), X) - At(At(t, 3), X)
        cy == At(At(t, 2), Y) - At(At(t, 3), Y)
        cz == At(At(t, 2), Z) - At(At(t, 3), Z)
    IN  ax * (by * cz - bz * cy)
        + ay * (bz * cx - bx * cz)
        + az * (bx * cy + by * cx)

\* the numerator of lines 27-39: a . (b x c) with a, b, c taken from p3
TripleProduct(t) ==
    LET ax == At(At(t, 0), X) - At(At(t, 3), X)
        ay == At(At(t, 0), Y) - At(At(t, 3), Y)
        az == At(At(t, 0), Z) - At(At(t, 3), Z)
        bx == At(At(t, 1), X) - At(At(t, 3), X)
        by == At(At(t, 1), Y) - At(At(t, 3), Y)
        bz == At(At(t, 1), Z) - At(At(t, 3), Z)
        cx == At(At(t, 2), X) - At(At(t, 3), X)
        cy == At(At(t, 2), Y) - At(At(t, 3), Y)
        cz == At(At(t, 2), Z) - At(At(t, 3), Z)
    IN  ax * (by * cz - bz * cy)
        + ay * (bz * cx - bx * cz)
        + az * (bx * cy - by * cx)

tetrahedron_volume(t) == DDiv6(TripleProduct(t))

----------------------------------------------------------------------------
(* calculate_volume, lines 58-75, one action per step *)

\* line 62
InitialVolume == DZero

\* a slip: <= for <
LoopRunsOnceMore(k, n) == k <= n

\* line 65: the loop condition
LoopContinues(k, n) == k < n

\* a slip: the position is one too far
IndexPositionOffByOne(f, k) == (f * 3) + k + 1

\* line 68: the position read in vector_indices
IndexPosition(f, k) == (f * 3) + k

\* line 71: the slot the reference vertex is copied to
ReferenceSlot == 3

\* a slip: vectors[3] for vectors[0]
ReferenceIndexAsSlot == ReferenceSlot

\* line 71: the fourth point of every tetrahedron
ReferenceIndex == 0

\* a slip: = for +=
OverwriteTerm(total, term) == term

\* line 72: volume += term
AccumulateTerm(total, term) == DAdd(total, term)

\* A read outside an array is undefined: any index, any vector may come back.
ReadIndex(pos) ==
    IF pos \in 0..(Len(vector_indices) - 1)
    THEN {At(vector_indices, pos)}
    ELSE -1..num_vertices

ReadVector(k) ==
    IF k \in 0..(Len(vectors) - 1) THEN {At(vectors, k)} ELSE Points

\* memcpy(tetrahedron[slot], v, sizeof(tetrahedron[0])); a slot outside 0..3
\* overwrites something else and leaves the scratch array as it was
StoreSlot(t, slot, v) ==
    IF slot \in 0..3 THEN [t EXCEPT ![slot + 1] = v] ELSE t

\* lines 61-65: the locals, volume = 0.0, i = 0
Enter ==
    /\ pc = "call"
    /\ pc' = "for_i"
    /\ tetrahedron' = <<>>
    /\ volume' = InitialVolume
    /\ i' = 0
    /\ j' = 0
    /\ vol' = DZero
    /\ idx_reads' = {}
    /\ vec_reads' = {}
    /\ slot_writes' = {}
    /\ ncalls' = 0
    /\ UNCHANGED <<caller, args, saved, op>>

\* lines 65-67: the loop test holds, the scratch array is zeroed, j = 0
BeginFace ==
    /\ pc = "for_i"
    /\ LoopContinues(i, num_trfaces)
    /\ tetrahedron' = <<ZeroVector, ZeroVector, ZeroVector, ZeroVector>>
    /\ slot_writes' = slot_writes \cup {0, 1, 2, 3}
    /\ j' = 0
    /\ pc' = "for_j"
    /\ UNCHANGED <<caller, args, volume, i, vol, idx_reads, vec_reads, ncalls,
                   saved, op>>

\* lines 67-70: one turn of the inner loop
CopyVertex ==
    /\ pc = "for_j"
    /\ j < 3
    /\ \E index \in ReadIndex(IndexPosition(i, j)) :
         \E v \in ReadVector(index) :
            /\ tetrahedron' = StoreSlot(tetrahedron, j, v)
            /\ vec_reads' = vec_reads \cup {index}
    /\ idx_reads' = idx_reads \cup {IndexPosition(i, j)}
    /\ slot_writes' = slot_writes \cup {j}
    /\ j' = j + 1
    /\ UNCHANGED <<caller, pc, args, volume, i, vol, ncalls, saved, op>>

\* lines 67, 71: the inner loop ends; the reference vertex goes to slot 3
CopyReference ==
    /\ pc = "for_j"
    /\ ~(j < 3)
    /\ \E v \in ReadVector(ReferenceIndex) :
         tetrahedron' = StoreSlot(tetrahedron, ReferenceSlot, v)
    /\ vec_reads' = vec_reads \cup {ReferenceIndex}
    /\ slot_writes' = slot_writes \cup {ReferenceSlot}
    /\ pc' = "tetra"
    /\ UNCHANGED <<caller, args, volume, i, j, vol, idx_reads, ncalls, saved, op>>

\* line 72: the call of tetrahedron_volume
CallTetrahedronVolume ==
    /\ pc = "tetra"
    /\ vol' = tetrahedron_volume(tetrahedron)
    /\ ncalls' = ncalls + 1
    /\ pc' = "add"
    /\ UNCHANGED <<caller, args, tetrahedron, volume, i, j, idx_reads, vec_reads,
                   slot_writes, saved, op>>

\* lines 72, 65: volume += the returned value; i++
Accumulate ==
    /\ pc = "add"
    /\ volume' = AccumulateTerm(volume, vol)
    /\ i' = i + 1
    /\ pc' = "for_i"
    /\ UNCHANGED <<caller, args, tetrahedron, j, vol, idx_reads, vec_reads,
                   slot_writes, ncalls, saved, op>>

\* lines 65, 74: the loop test fails; return volume
Return ==
    /\ pc = "for_i"
    /\ ~LoopContinues(i, num_trfaces)
    /\ pc' = "done"
    /\ UNCHANGED <<caller, args, tetrahedron, volume, i, j, vol, idx_reads,
                   vec_reads, slot_writes, ncalls, saved, op>>

----------------------------------------------------------------------------
(* Direct calls of calculate_volume *)

\* the vertices of test_pyramid, lines 160-165, and one more point
SampleVertices ==
    << <<0, 0, 0>>, <<1, 0, 0>>, <<0, 1, 0>>, <<1, 1, 1>>, <<0, 1, 1>> >>

Min(a, b) == IF a < b THEN a ELSE b

\* the first n sample vertices, the reference vertex replaced by r
VertexArray(n, r) ==
    [k \in 1..n |-> IF k = 1 THEN r ELSE SampleVertices[k]]

VertexArrays ==
    {VertexArray(n, r) : n \in 0..Min(MaxVertices, Len(SampleVertices)), r \in Points}

RECURSIVE SeqsUpTo(_, _)
SeqsUpTo(S, n) ==
    IF n = 0 THEN {<<>>}
    ELSE LET shorter == SeqsUpTo(S, n - 1)
         IN  shorter \cup {Append(s, e) : s \in {t \in shorter : Len(t) = n - 1}, e \in S}

\* every face (i, j, k) with valid indices, repeated indices included
Triples(n) == {<<a, b, c>> : a \in 0..(n - 1), b \in 0..(n - 1), c \in 0..(n - 1)}

RECURSIVE Flatten(_)
Flatten(faces) ==
    IF faces = <<>> THEN <<>> ELSE Head(faces) \o Flatten(Tail(faces))

\* face f of a flat index array
Face(indices, f) == <<At(indices, 3 * f), At(indices, 3 * f + 1), At(indices, 3 * f + 2)>>

Idle ==
    /\ tetrahedron = <<>>
    /\ volume = DZero
    /\ i = 0
    /\ j = 0
    /\ vol = DZero
    /\ idx_reads = {}
    /\ vec_reads = {}
    /\ slot_writes = {}
    /\ ncalls = 0
    /\ saved = DZero
    /\ op = "none"

Init ==
    /\ caller = "direct"
    /\ pc = "call"
    /\ vectors \in VertexArrays
    /\ num_vertices = Len(vectors)
    /\ \E faces \in SeqsUpTo(Triples(Len(vectors)), MaxFaces) :
          /\ vector_indices = Flatten(faces)
          /\ num_trfaces = Len(faces)
    /\ Idle

Step ==
    \/ Enter
    \/ BeginFace
    \/ CopyVertex
    \/ CopyReference
    \/ CallTetrahedronVolume
    \/ Accumulate
    \/ Return

Next == Step

Spec == Init /\ [][Next]_vars

----------------------------------------------------------------------------
(* The same face list in another order: a caller that calls again *)

\* the face lists of SpecPerm are one face longer than those of Spec
PermFaces == MaxFaces + 1

\* the triangles over the vertices other than the reference, in both windings
OrientedFaces(n) ==
    {f \in Triples(n) : /\ f[1] > 0 /\ f[2] > 0 /\ f[3] > 0
                        /\ \/ f[1] < f[2] /\ f[2] < f[3]
                           \/ f[1] > f[2] /\ f[2] > f[3]}

\* faces 0..n-1 of a flat index array, as a sequence of triples
FacesOf(indices, n) == [f \in 1..n |-> Face(indices, f - 1)]

InitPerm ==
    /\ caller = "direct"
    /\ pc = "call"
    /\ \E r \in Points : vectors = VertexArray(Len(SampleVertices), r)
    /\ num_vertices = Len(vectors)
    /\ \E faces \in SeqsUpTo(OrientedFaces(Len(vectors)), PermFaces) :
          /\ vector_indices = Flatten(faces)
          /\ num_trfaces = Len(faces)
    /\ Idle

\* the caller keeps the result, reorders the faces and calls again
CallPermuted ==
    /\ pc = "done"
    /\ op = "none"
    /\ \E p \in Permutations(1..num_trfaces) :
          LET faces == FacesOf(vector_indices, num_trfaces)
          IN  vector_indices' = Flatten([f \in 1..num_trfaces |-> faces[p[f]]])
    /\ saved' = volume
    /\ op' = "permute"
    /\ pc' = "call"
    /\ UNCHANGED <<caller, num_vertices, vectors, num_trfaces, tetrahedron, volume,
                   i, j, vol, idx_reads, vec_reads, slot_writes, ncalls>>

NextPerm == Step \/ CallPermuted

SpecPerm == InitPerm /\ [][NextPerm]_vars

----------------------------------------------------------------------------
(* The wrappers, lines 93-117 and 135-155 *)

\* a slip: the first top triangle wound the other way
qfhexahedron_indices_top_reversed ==
    << 0, 2, 1,
       0, 3, 2,
       4, 6, 5,
       4, 6, 7,
       0, 5, 4,
       0, 1, 5,
       1, 6, 5,
       1, 2, 6,
       3, 6, 2,
       3, 7, 6,
       0, 7, 3,
       0, 4, 7 >>

\* lines 98-111
qfhexahedron_indices ==
    << 0, 2, 1,
       0, 3, 2,
       4, 5, 6,
       4, 6, 7,
       0, 5, 4,
       0, 1, 5,
       1, 6, 5,
       1, 2, 6,
       3, 6, 2,
       3, 7, 6,
       0, 7, 3,
       0, 4, 7 >>

\* a slip: the top triangle wound the other way
prism_indices_top_reversed ==
    << 0, 1, 2,
       3, 5, 4,
       0, 4, 3,
       0, 1, 4,
       1, 5, 4,
       1, 2, 5,
       0, 3, 5,
       0, 5, 2 >>

\* lines 140-149
prism_indices ==
    << 0, 1, 2,
       3, 4, 5,
       0, 4, 3,
       0, 1, 4,
       1, 5, 4,
       1, 2, 5,
       0, 3, 5,
       0, 5, 2 >>

calculate_volume_qfhexahedron ==
    /\ pc = "wrapper"
    /\ caller = "qfhexahedron"
    /\ num_vertices' = 8
    /\ num_trfaces' = 12
    /\ vector_indices' = qfhexahedron_indices
    /\ pc' = "call"
    /\ UNCHANGED <<caller, vectors, tetrahedron, volume, i, j, vol, idx_reads,
                   vec_reads, slot_writes, ncalls, saved, op>>

calculate_volume_prism ==
    /\ pc = "wrapper"
    /\ caller = "prism"
    /\ num_vertices' = 6
    /\ num_trfaces' = 8
    /\ vector_indices' = prism_indices
    /\ pc' = "call"
    /\ UNCHANGED <<caller, vectors, tetrahedron, volume, i, j, vol, idx_reads,
                   vec_reads, slot_writes, ncalls, saved, op>>

\* a box with edges a, b, c whose top face is shifted by (sx, sy), in the
\* order of the figure of lines 82-89 (test_cube, test_parallelepiped,
\* test_slanted_parallelepiped are BoxVertices(2,2,2,0,0), (4,2,2,0,0), (4,2,2,0,1))
BoxVertices(a, b, c, sx, sy) ==
    << <<0, 0, 0>>, <<a, 0, 0>>, <<a, b, 0>>, <<0, b, 0>>,
       <<sx, sy, c>>, <<a + sx, sy, c>>, <<a + sx, b + sy, c>>, <<sx, b + sy, c>> >>

\* a prism of height h over a right triangle with legs a and b, in the order
\* of the figure of lines 124-131
PrismVertices(a, b, h) ==
    << <<0, 0, 0>>, <<a, 0, 0>>, <<0, b, 0>>,
       <<0, 0, h>>, <<a, 0, h>>, <<0, b, h>> >>

\* test_prism, lines 274-281
TestPrismVertices ==
    << <<0, 0, 0>>, <<4, 0, 0>>, <<0, 4, 0>>,
       <<0, 0, 6>>, <<4, 0, 6>>, <<0, 4, 6>> >>

Edges == 1..MaxEdge

Shears == (-MaxShear)..MaxShear

InitShapes ==
    /\ pc = "wrapper"
    /\ \/ /\ caller = "qfhexahedron"
          /\ \E a \in Edges, b \in Edges, c \in Edges, sx \in Shears, sy \in Shears :
                vectors = BoxVertices(a, b, c, sx, sy)
       \/ /\ caller = "prism"
          /\ \/ \E a \in Edges, b \in Edges, h \in Edges : vectors = PrismVertices(a, b, h)
             \/ vectors = TestPrismVertices
    /\ num_vertices = 0
    /\ num_trfaces = 0
    /\ vector_indices = <<>>
    /\ Idle

NextShapes == calculate_volume_qfhexahedron \/ calculate_volume_prism \/ Step

SpecShapes == InitShapes /\ [][NextShapes]_vars

----------------------------------------------------------------------------
(* tetrahedron_volume on its own: a caller that compares two calls *)

Shifts == (-MaxShift)..MaxShift

Translations == {<<x, y, z>> : x \in Shifts, y \in Shifts, z \in Shifts} \ {ZeroVector}

Plus(p, t) == <<p[1] + t[1], p[2] + t[2], p[3] + t[3]>>

InitTetra ==
    /\ caller = "tetra"
    /\ pc = "t_call"
    /\ tetrahedron \in [1..4 -> Points]
    /\ num_vertices = 0
    /\ vectors = <<>>
    /\ num_trfaces = 0
    /\ vector_indices = <<>>
    /\ volume = DZero
    /\ i = 0
    /\ j = 0
    /\ vol = DZero
    /\ idx_reads = {}
    /\ vec_reads = {}
    /\ slot_writes = {}
    /\ ncalls = 0
    /\ saved = DZero
    /\ op = "none"

\* lines 22-42
TetraCall ==
    /\ pc = "t_call"
    /\ vol' = tetrahedron_volume(tetrahedron)
    /\ ncalls' = ncalls + 1
    /\ pc' = "t_ret"
    /\ UNCHANGED <<caller, args, tetrahedron, volume, i, j, idx_reads, vec_reads,
                   slot_writes, saved, op>>

\* the caller exchanges two of the first three points and calls again
SwapPoints ==
    /\ pc = "t_ret"
    /\ op = "none"
    /\ \E a \in 1..3, b \in 1..3 :
          /\ a < b
          /\ tetrahedron' = [tetrahedron EXCEPT ![a] = tetrahedron[b],
                                                ![b] = tetrahedron[a]]
    /\ saved' = vol
    /\ op' = "swap"
    /\ pc' = "t_call"
    /\ UNCHANGED <<caller, args, volume, i, j, vol, idx_reads, vec_reads,
                   slot_writes, ncalls>>

\* the caller translates all four points by one vector and calls again
TranslateAll ==
    /\ pc = "t_ret"
    /\ op = "none"
    /\ \E t \in Translations :
          tetrahedron' = [k \in 1..4 |-> Plus(tetrahedron[k], t)]
    /\ saved' = vol
    /\ op' = "translate"
    /\ pc' = "t_call"
    /\ UNCHANGED <<caller, args, volume, i, j, vol, idx_reads, vec_reads,
                   slot_writes, ncalls>>

NextTetra == TetraCall \/ SwapPoints \/ TranslateAll

SpecTetra == InitTetra /\ [][NextTetra]_vars

----------------------------------------------------------------------------
(* Properties *)

\* the tetrahedron the accumulator is to form for face f
FaceTetrahedron(f) ==
    LET face == Face(vector_indices, f)
    IN  <<At(vectors, face[1]), At(vectors, face[2]), At(vectors, face[3]),
          At(vectors, 0)>>

\* the sum, in list order and starting from 0.0, of the first n faces' volumes
RECURSIVE SumInOrder(_)
SumInOrder(n) ==
    IF n = 0 THEN DZero
    ELSE DAdd(SumInOrder(n - 1), tetrahedron_volume(FaceTetrahedron(n - 1)))

FaceHasReference(f) ==
    \E k \in 1..3 : Face(vector_indices, f)[k] = 0

\* C1: calculate_volume returns the sum over the faces, in list order and
\* starting from 0, of tetrahedron_volume(vertices[i], vertices[j], vertices[k],
\* vertices[0]); the tetrahedron handed to each call is that one, and there
\* is exactly one call per face.
C1_SumOverFaces ==
    /\ pc = "add" => tetrahedron = FaceTetrahedron(i)
    /\ pc \in {"for_i", "done"} => /\ volume = SumInOrder(i)
                                  /\ ncalls = i
    /\ pc = "done" => /\ volume = SumInOrder(num_trfaces)
                      /\ ncalls = num_trfaces

C1_Witness ==
    /\ pc = "done"
    /\ num_trfaces >= 2
    /\ ~FaceHasReference(0)
    /\ ~FaceHasReference(1)
    /\ At(vectors, 0) # ZeroVector
    /\ SumInOrder(1) # DZero
    /\ volume # SumInOrder(1)

C4_SameTotal ==
    (pc = "done" /\ op = "permute") => volume = saved

\* C4 as amended: the two totals differ by less than EPSILON.
C4_SameTotalWithinEpsilon ==
    (pc = "done" /\ op = "permute") => Within(volume, saved)

C4_Witness ==
    /\ pc = "done"
    /\ op = "permute"
    /\ num_trfaces = PermFaces
    /\ volume # DZero
    /\ At(vectors, 0) # ZeroVector
    /\ \E f \in 0..(num_trfaces - 1), g \in 0..(num_trfaces - 1) :
          /\ tetrahedron_volume(FaceTetrahedron(f)) # DZero
          /\ tetrahedron_volume(FaceTetrahedron(g)) # DZero
          /\ tetrahedron_volume(FaceTetrahedron(f)) # tetrahedron_volume(FaceTetrahedron(g))

\* C5: with num_trfaces = 0 calculate_volume returns 0.0 whatever the vertex
\* array holds: no tetrahedron is formed and nothing is read, vertices[0]
\* included.
C5_NoFaces ==
    (pc = "done" /\ num_trfaces = 0) =>
        /\ volume = DZero
        /\ ncalls = 0
        /\ tetrahedron = <<>>
        /\ slot_writes = {}
        /\ vec_reads = {}
        /\ idx_reads = {}

C5_Witness ==
    /\ pc = "done"
    /\ num_trfaces = 0
    /\ num_vertices >= 2
    /\ At(vectors, 0) # ZeroVector

\* the box a vertex array of the hexahedron wrapper describes
BoxVolume == At(vectors, 1)[1] * At(vectors, 3)[2] * At(vectors, 4)[3]

\* C6 as stated: for the box with edges a, b, c, sheared or not,
\* calculate_volume_qfhexahedron returns a*b*c.
C6_BoxVolumeExact ==
    (pc = "done" /\ caller = "qfhexahedron") => volume = DFromInt(BoxVolume)

\* C6 as amended: the returned value is the binary64 sum of six terms
\* a*b*c/6.0, the same for the box and for its sheared variants, and differs
\* from a*b*c by less than EPSILON.
C6_BoxVolumeWithinEpsilon ==
    (pc = "done" /\ caller = "qfhexahedron") =>
        LET q == DDiv6(BoxVolume)
        IN  /\ volume = DAdd(DAdd(DAdd(DAdd(DAdd(q, q), q), q), q), q)
            /\ Within(volume, DFromInt(BoxVolume))

C6_Witness ==
    /\ pc = "done"
    /\ caller = "qfhexahedron"
    /\ At(vectors, 4)[1] # 0
    /\ At(vectors, 4)[2] # 0
    /\ BoxVolume > 1
    /\ volume # DFromInt(BoxVolume)

C8_ReferenceFace ==
    /\ [](pc = "add" /\ FaceHasReference(i) => vol = DZero)
    /\ [][pc = "add" /\ FaceHasReference(i) => volume' = volume]_vars

C8_Witness ==
    /\ pc = "add"
    /\ FaceHasReference(i)
    /\ volume # DZero
    /\ At(vectors, 0) # ZeroVector
    /\ Cardinality({FaceTetrahedron(i)[k] : k \in 1..4}) = 3

DirectedEdges(face) == {<<face[1], face[2]>>, <<face[2], face[3]>>, <<face[3], face[1]>>}

\* every directed edge of every triangle lies in exactly one triangle, and its
\* reverse in exactly one
ClosedOriented(faces) ==
    \A f \in DOMAIN faces : \A e \in DirectedEdges(faces[f]) :
        /\ Cardinality({g \in DOMAIN faces : e \in DirectedEdges(faces[g])}) = 1
        /\ Cardinality({g \in DOMAIN faces : <<e[2], e[1]>> \in DirectedEdges(faces[g])}) = 1

\* C9: the face tables the wrappers pass to calculate_volume are closed,
\* consistently oriented triangulations.
C9_TablesClosedOriented ==
    (caller \in {"qfhexahedron", "prism"} /\ pc # "wrapper") =>
        ClosedOriented(FacesOf(vector_indices, num_trfaces))

\* C10: with at least one vertex and valid indices every access is in bounds,
\* the loop ends after exactly num_trfaces iterations, and the caller's arrays
\* are left as they were.
C10_InBounds ==
    /\ [](num_vertices >= 1 =>
            /\ idx_reads \subseteq 0..(3 * num_trfaces - 1)
            /\ vec_reads \subseteq 0..(num_vertices - 1)
            /\ slot_writes \subseteq 0..3
            /\ i <= num_trfaces
            /\ pc = "done" => (i = num_trfaces /\ ncalls = num_trfaces))
    /\ [][vectors' = vectors /\ vector_indices' = vector_indices]_vars

C10_Witness ==
    /\ pc = "done"
    /\ num_trfaces = MaxFaces
    /\ num_vertices = MaxVertices
    /\ idx_reads = 0..(3 * num_trfaces - 1)
    /\ vec_reads = 0..(num_vertices - 1)
    /\ slot_writes = 0..3

====
